---- MODULE Spec2Model ----
(***************************************************************************)
(* Snake game of src/src/App.tsx: the React component's state, its timer   *)
(* callback (moveSnake) and its keydown handler (handleKeyPress).  Every   *)
(* event runs to completion, re-render included, before the next one, so   *)
(* the closures of a callback see the state of the last render.            *)
(***************************************************************************)
EXTENDS Integers, Sequences, FiniteSets, TLC

\* ---------------------------------------------------------------- constants
GRID_SIZE == 20
INITIAL_SNAKE == << [x |-> 10, y |-> 10] >>
INITIAL_DIRECTION == [x |-> 1, y |-> 0]
INITIAL_FOOD == [x |-> 15, y |-> 15]

\* ------------------------------------------------------------------- bounds
\* longest snake the model grows in play: a tick that would eat at this
\* length is not taken (the last growth, onto the one free cell of a full
\* board, is always taken)
MaxLen == 4

\* ------------------------------------------------------------------- inputs
keyMap == [ArrowUp    |-> [x |-> 0,  y |-> -1],
           ArrowDown  |-> [x |-> 0,  y |-> 1],
           ArrowLeft  |-> [x |-> -1, y |-> 0],
           ArrowRight |-> [x |-> 1,  y |-> 0]]

Keys == {" ", "Enter", "p", "P", "ArrowUp", "ArrowDown", "ArrowLeft",
         "ArrowRight", "x"}

\* the values of Math.floor(Math.random() * GRID_SIZE) the model draws for x
\* and for y: the cell of the first food and the cell to its left
RandomX == {n \in 0..(GRID_SIZE - 1) : n \in {INITIAL_FOOD.x - 1, INITIAL_FOOD.x}}
RandomY == {n \in 0..(GRID_SIZE - 1) : n = INITIAL_FOOD.y}

\* snake .. directionRef are the component's state and ref.  The last two
\* record history; no action of the component depends on them:
\*   committedDir  the direction the most recent tick applied (the initial
\*                 direction before the first tick and after a reset)
\*   validRequest  the most recent direction key since that tick that is not
\*                 the opposite of committedDir (committedDir if none)
VARIABLES snake, food, gameOver, score, isPaused, directionRef,
          committedDir, validRequest

vars == <<snake, food, gameOver, score, isPaused, directionRef,
          committedDir, validRequest>>

\* ------------------------------------------------------------------ helpers
Opposite(d) == [x |-> -d.x, y |-> -d.y]

Segments(s) == {s[i] : i \in 1..Len(s)}

\* variants of Pop: Array.prototype.shift instead of pop; no pop at all
Pop_shift(s) == SubSeq(s, 2, Len(s))

Pop_keepAll(s) == s

\* Array.prototype.pop on a copy: the sequence without its last element
Pop(s) == SubSeq(s, 1, Len(s) - 1)

InGrid(p) == p.x >= 0 /\ p.x < GRID_SIZE /\ p.y >= 0 /\ p.y < GRID_SIZE

\* the phase shown by the render: GameOver wins over Paused
phase == IF gameOver THEN "GameOver" ELSE IF isPaused THEN "Paused" ELSE "Running"

\* variant of rejects: the loop also redraws the cell the head moves onto,
\* that is, it tests the grown snake
rejects_grownSnake(newFood, closureSnake) ==
    \/ \E i \in 1..Len(closureSnake) :
           closureSnake[i].x = newFood.x /\ closureSnake[i].y = newFood.y
    \/ (snake[1].x + directionRef.x = newFood.x
           /\ snake[1].y + directionRef.y = newFood.y)

\* the while-condition of generateFood: the candidate is redrawn if it is on
\* a segment of the snake of the render the callback closed over
rejects(newFood, closureSnake) ==
    \E i \in 1..Len(closureSnake) :
        closureSnake[i].x = newFood.x /\ closureSnake[i].y = newFood.y

\* generateFood: the positions the rejection loop can return
generateFood(closureSnake) ==
    {c \in [x : RandomX, y : RandomY] : ~rejects(c, closureSnake)}

\* variants of checkCollision: without the wall test, without the last
\* segment, without the self test
checkCollision_noWall(head, closureSnake) ==
    \E i \in 1..Len(closureSnake) :
        i > 1 /\ closureSnake[i].x = head.x /\ closureSnake[i].y = head.y

checkCollision_skipTail(head, closureSnake) ==
    IF head.x < 0 \/ head.x >= GRID_SIZE \/ head.y < 0 \/ head.y >= GRID_SIZE
    THEN TRUE
    ELSE \E i \in 1..(Len(closureSnake) - 1) :
             i > 1 /\ closureSnake[i].x = head.x /\ closureSnake[i].y = head.y

checkCollision_noSelf(head, closureSnake) ==
    head.x < 0 \/ head.x >= GRID_SIZE \/ head.y < 0 \/ head.y >= GRID_SIZE

\* checkCollision: wall, then every segment but index 0 of the closed-over snake
checkCollision(head, closureSnake) ==
    IF head.x < 0 \/ head.x >= GRID_SIZE \/ head.y < 0 \/ head.y >= GRID_SIZE
    THEN TRUE
    ELSE \E i \in 1..Len(closureSnake) :
             i > 1 /\ closureSnake[i].x = head.x /\ closureSnake[i].y = head.y

\* the cell moveSnake computes for the head
NewHead == [x |-> snake[1].x + directionRef.x, y |-> snake[1].y + directionRef.y]

\* the reversal test of handleKeyPress against the one direction ref
acceptsDirection(newDirection, currentDir) ==
    newDirection.x # -currentDir.x /\ newDirection.y # -currentDir.y

\* variant of scoreUpdater: counts segments instead of points
scoreUpdater_plusOne(prev) == prev + 1

\* the updater passed to setScore when food is eaten
scoreUpdater(prev) == prev + 10

\* variant of gameLoopActive: the effect forgets isPaused
gameLoopActive_ignoresPause == ~gameOver

\* the guard of the game-loop effect: the interval exists only then
gameLoopActive == ~(gameOver \/ isPaused)

\* --------------------------------------------------------------------- Init
Init ==
    /\ snake = INITIAL_SNAKE
    /\ food = INITIAL_FOOD
    /\ gameOver = FALSE
    /\ score = 0
    /\ isPaused = FALSE
    /\ directionRef = INITIAL_DIRECTION
    /\ committedDir = INITIAL_DIRECTION
    /\ validRequest = INITIAL_DIRECTION

\* ------------------------------------------------------------------ actions
\* one timer tick
moveSnake ==
    /\ gameLoopActive
    /\ LET prevSnake == snake
           currentDir == directionRef
           head == [x |-> prevSnake[1].x + currentDir.x,
                    y |-> prevSnake[1].y + currentDir.y]
       IN /\ committedDir' = currentDir
          /\ validRequest' = currentDir
          /\ IF checkCollision(head, snake)
             THEN /\ gameOver' = TRUE
                  /\ UNCHANGED <<snake, food, score>>
             ELSE IF head.x = food.x /\ head.y = food.y
             THEN /\ (Len(prevSnake) < MaxLen
                       \/ Len(prevSnake) = GRID_SIZE * GRID_SIZE - 1)
                  /\ snake' = <<head>> \o prevSnake
                  /\ food' \in generateFood(snake)
                  /\ score' = scoreUpdater(score)
                  /\ UNCHANGED gameOver
             ELSE /\ snake' = Pop(<<head>> \o prevSnake)
                  /\ UNCHANGED <<food, score, gameOver>>
    /\ UNCHANGED <<isPaused, directionRef>>

\* variant of resetGame: the direction ref is not restored
resetGame_keepsDirection ==
    /\ snake' = INITIAL_SNAKE
    /\ food' = INITIAL_FOOD
    /\ gameOver' = FALSE
    /\ score' = 0
    /\ isPaused' = FALSE
    /\ committedDir' = INITIAL_DIRECTION
    /\ validRequest' = INITIAL_DIRECTION
    /\ UNCHANGED directionRef

\* the reset branch of handleKeyPress
resetGame ==
    /\ snake' = INITIAL_SNAKE
    /\ food' = INITIAL_FOOD
    /\ directionRef' = INITIAL_DIRECTION
    /\ gameOver' = FALSE
    /\ score' = 0
    /\ isPaused' = FALSE
    /\ committedDir' = INITIAL_DIRECTION
    /\ validRequest' = INITIAL_DIRECTION

\* the pause branch of handleKeyPress
togglePause ==
    /\ isPaused' = ~isPaused
    /\ UNCHANGED <<snake, food, gameOver, score, directionRef,
                   committedDir, validRequest>>

\* the direction branch of handleKeyPress
setDirection(newDirection) ==
    /\ directionRef' = IF acceptsDirection(newDirection, directionRef)
                       THEN newDirection ELSE directionRef
    /\ validRequest' = IF newDirection # Opposite(committedDir)
                       THEN newDirection ELSE validRequest
    /\ UNCHANGED <<snake, food, gameOver, score, isPaused, committedDir>>

\* variants of handleKeyPress: any key restarts a finished game; Enter
\* restarts in every phase
handleKeyPress_anyKeyRestarts(key) ==
    IF gameOver
    THEN resetGame
    ELSE IF key = " " \/ key = "p" \/ key = "P" THEN togglePause
    ELSE IF key \in DOMAIN keyMap THEN setDirection(keyMap[key])
    ELSE UNCHANGED vars

handleKeyPress_resetAnywhere(key) ==
    IF key = "Enter" \/ (gameOver /\ key = " ") THEN resetGame
    ELSE IF gameOver THEN UNCHANGED vars
    ELSE IF key = " " \/ key = "p" \/ key = "P" THEN togglePause
    ELSE IF key \in DOMAIN keyMap THEN setDirection(keyMap[key])
    ELSE UNCHANGED vars

handleKeyPress(key) ==
    IF gameOver
    THEN IF key = " " \/ key = "Enter" THEN resetGame ELSE UNCHANGED vars
    ELSE IF key = " " \/ key = "p" \/ key = "P" THEN togglePause
    ELSE IF key \in DOMAIN keyMap THEN setDirection(keyMap[key])
    ELSE UNCHANGED vars

KeyDown == \E key \in Keys : handleKeyPress(key)

Next == moveSnake \/ KeyDown

Spec == Init /\ [][Next]_vars

\* ------------------------------------------------- ticks without any input
Directions == {keyMap[k] : k \in DOMAIN keyMap}

GridCells == [x : 0..(GRID_SIZE - 1), y : 0..(GRID_SIZE - 1)]

Perpendicular(a, b) == a.x * b.x + a.y * b.y = 0

\* The Running states of Spec with at most two segments: the head h came
\* from the cell t behind it; a snake of one segment has not met the first
\* food; a generated food lies under a snake of two segments only where it
\* was generated there, on the cell just eaten; and the direction ref and the
\* last valid request are what direction keys since the last tick can have
\* left.  From here a straight run eats at most twice, so the MaxLen guard of
\* moveSnake never stops it.
InitTicks ==
    /\ gameOver = FALSE
    /\ isPaused = FALSE
    /\ committedDir \in Directions
    /\ \E h \in GridCells :
          LET t == [x |-> h.x - committedDir.x, y |-> h.y - committedDir.y]
          IN /\ InGrid(t)
             /\ \/ /\ snake = <<h>>
                   /\ food = INITIAL_FOOD
                   /\ food \notin {h, t}
                \/ /\ snake = <<h, t>>
                   /\ food \in [x : RandomX, y : RandomY]
                   /\ (food = INITIAL_FOOD \/ food \notin {h, t})
    /\ score = 10 * (Len(snake) - 1)
    /\ directionRef \in Directions
    /\ validRequest \in Directions
    /\ validRequest # Opposite(committedDir)
    /\ (directionRef = committedDir => validRequest = committedDir)
    /\ (Perpendicular(directionRef, committedDir)
           => Perpendicular(validRequest, committedDir))

\* only the interval fires, and it keeps firing while it is installed
NextTicks == moveSnake

SpecTicks == InitTicks /\ [][NextTicks]_vars /\ WF_vars(moveSnake)

\* ------------------------------------------------------------ the full board
\* A path through all cells of the grid, numbered 0 .. GRID_SIZE^2 - 1: rows
\* 0..14 back and forth, columns 19..15 of rows 15..19 down and up, rows 19
\* and 18 of columns 0..14, row 17 leftwards, then rows 16 and 15 in a zigzag
\* that ends on (14,16), (14,15).
PathCell(k) ==
    IF k < 300
    THEN [x |-> IF (k \div 20) % 2 = 0 THEN k % 20 ELSE 19 - (k % 20),
          y |-> k \div 20]
    ELSE IF k < 325
    THEN LET j == k - 300
         IN [x |-> 19 - (j \div 5),
             y |-> IF (j \div 5) % 2 = 0 THEN 15 + (j % 5) ELSE 19 - (j % 5)]
    ELSE IF k < 355
    THEN LET j == k - 325
         IN [x |-> IF j < 15 THEN 14 - j ELSE j - 15,
             y |-> IF j < 15 THEN 19 ELSE 18]
    ELSE IF k < 370
    THEN [x |-> 14 - (k - 355), y |-> 17]
    ELSE LET j == k - 370
         IN [x |-> j \div 2,
             y |-> IF ((j \div 2) + (j % 2)) % 2 = 0 THEN 16 ELSE 15]

\* The snake has eaten its way along the path and fills every cell but the
\* last one, (14,15), where the food lies; its head is on (14,16), the last
\* tick moved it right and ArrowUp has been pressed since.
InitFull ==
    /\ snake = [i \in 1..(GRID_SIZE * GRID_SIZE - 1)
                   |-> PathCell(GRID_SIZE * GRID_SIZE - 1 - i)]
    /\ food = PathCell(GRID_SIZE * GRID_SIZE - 1)
    /\ gameOver = FALSE
    /\ score = 10 * (GRID_SIZE * GRID_SIZE - 2)
    /\ isPaused = FALSE
    /\ directionRef = keyMap["ArrowUp"]
    /\ committedDir = keyMap["ArrowRight"]
    /\ validRequest = keyMap["ArrowUp"]

SpecFull == InitFull /\ [][Next]_vars

\* ------------------------------------------------------------------- claims
\* a tick whose new head is inside the grid and on no segment
NonColliding == InGrid(NewHead) /\ NewHead \notin Segments(snake)

\* a tick that eats: it does not collide and its new head is on the food
Eats == moveSnake /\ NonColliding /\ NewHead = food

\* C1: whenever a tick eats, the food generated in that tick is on no segment
\* of the grown snake, the new head included.
C1_NewFoodOffGrownSnake ==
    [][Eats => food' \notin Segments(snake')]_vars

\* C2: a direction key that is the opposite of the direction the last tick
\* applied never changes the direction ref; so no tick applies the opposite
\* of the direction the tick before it applied, and the head of a snake of
\* two or more segments is never moved onto its second segment.
C2_NoReversalBetweenTicks ==
    [][ /\ (~gameOver /\ setDirection(Opposite(committedDir)))
            => directionRef' = directionRef
        /\ moveSnake => directionRef # Opposite(committedDir)
        /\ (moveSnake /\ Len(snake) >= 2) => NewHead # snake[2] ]_vars

\* C3: a tick in phase Running whose new head is outside the grid ends in
\* GameOver with snake, food and score as they were.
C3_WallCollisionEndsGame ==
    [][(phase = "Running" /\ moveSnake /\ ~InGrid(NewHead))
          => (phase' = "GameOver" /\ snake' = snake /\ food' = food
              /\ score' = score)]_vars

C3_Witness == gameOver /\ ~InGrid(NewHead)

\* C4: a tick in phase Running whose new head is on any segment of the snake
\* as it is before the tick, the last one included, ends in GameOver with
\* snake, food and score as they were.
C4_SelfCollisionEndsGame ==
    [][(phase = "Running" /\ moveSnake /\ NewHead \in Segments(snake))
          => (phase' = "GameOver" /\ snake' = snake /\ food' = food
              /\ score' = score)]_vars

\* the head turned, without reversing, into the cell of the last segment
C4_Witness ==
    /\ gameOver
    /\ Len(snake) >= 4
    /\ NewHead = snake[Len(snake)]
    /\ directionRef # Opposite(committedDir)

\* C5: a tick that eats adds exactly 10 to the score and exactly one segment
\* to the snake: the new head in front, every old segment kept in its cell.
C5_EatingScoresAndGrows ==
    [][Eats => /\ score' = score + 10
               /\ Len(snake') = Len(snake) + 1
               /\ snake'[1] = NewHead
               /\ \A i \in 1..Len(snake) : snake'[i + 1] = snake[i]]_vars

C5_Witness == score = 20 /\ Len(snake) = 3

\* C6: the direction a tick applies is the most recent direction key since
\* the previous tick that is not the opposite of the direction that tick
\* applied, or that direction itself if there was no such key.
C6_LastValidRequestWins ==
    [][moveSnake => directionRef = validRequest]_vars

\* C7: the snake always has at least one segment, no two segments share a
\* cell, and every segment is inside the grid.
C7_SnakeWellFormed ==
    /\ Len(snake) >= 1
    /\ \A i, j \in 1..Len(snake) : i # j => snake[i] # snake[j]
    /\ \A i \in 1..Len(snake) : InGrid(snake[i])

\* a snake of four segments bent into a square
C7_Witness ==
    /\ Len(snake) = 4
    /\ snake[1].x = snake[4].x
    /\ snake[1].y # snake[4].y
    /\ snake[2].x # snake[1].x

\* C8: the step that leaves GameOver yields one segment at (10,10), direction
\* (1,0), score 0, phase Running and a food that is not on the snake.
C8_ResetFromGameOver ==
    [][(gameOver /\ KeyDown)
          => (/\ snake' = << [x |-> 10, y |-> 10] >>
              /\ directionRef' = [x |-> 1, y |-> 0]
              /\ score' = 0
              /\ phase' = "Running"
              /\ food' \notin Segments(snake'))]_vars

\* a GameOver state with a grown snake, a score and a turned direction, in
\* which the reset step can be taken
C8_Witness ==
    /\ gameOver
    /\ Len(snake) >= 2
    /\ score >= 10
    /\ directionRef # [x |-> 1, y |-> 0]
    /\ ENABLED (KeyDown /\ ~gameOver')

\* C9: the phase changes only Running->Paused and Paused->Running (by a key
\* that moves nothing else), Running->GameOver (by a colliding tick) and
\* GameOver->Running (by the reset).
C9_PhaseTransitions ==
    [][ \/ phase' = phase
        \/ /\ phase = "Running" /\ phase' = "Paused"
           /\ KeyDown /\ ~moveSnake
        \/ /\ phase = "Paused" /\ phase' = "Running"
           /\ KeyDown /\ ~moveSnake
        \/ /\ phase = "Running" /\ phase' = "GameOver"
           /\ moveSnake /\ ~NonColliding
        \/ /\ phase = "GameOver" /\ phase' = "Running"
           /\ KeyDown /\ snake' = INITIAL_SNAKE /\ score' = 0 ]_vars

\* a game that, after eating, ended with the head turned back onto the
\* snake's own second segment
C9_Witness ==
    /\ phase = "GameOver"
    /\ score >= 10
    /\ Len(snake) >= 2
    /\ NewHead = snake[2]

\* C10: outside Running no step changes snake, food or score unless it is the
\* reset, and a step between Running and Paused changes nothing but the
\* phase.
C10_NoTickOutsideRunning ==
    [][ /\ (phase # "Running" /\ phase' # "Running")
            => (snake' = snake /\ food' = food /\ score' = score)
        /\ (phase = "Paused" \/ phase' = "Paused")
            => (snake' = snake /\ food' = food /\ score' = score)
        /\ (phase # phase' /\ "GameOver" \notin {phase, phase'})
            => directionRef' = directionRef ]_vars

\* paused in mid-game while a turn is pending
C10_Witness ==
    /\ isPaused
    /\ Len(snake) >= 2
    /\ directionRef # committedDir

\* C11: a pause/resume key pressed in GameOver is a no-op: phase stays
\* GameOver and snake, food, score and direction are unchanged, for each of
\* the keys that toggle the pause while Running (space, p, P).
C11_PauseSignalIgnoredInGameOver ==
    [][(gameOver /\ (handleKeyPress(" ") \/ handleKeyPress("p")
                        \/ handleKeyPress("P")))
          => (phase' = "GameOver" /\ snake' = snake /\ food' = food
              /\ score' = score /\ directionRef' = directionRef)]_vars

\* C11 as amended: p and P pressed in GameOver are no-ops (space, the third
\* pause key, is the restart key there).
C11_PKeysIgnoredInGameOver ==
    [][(gameOver /\ (handleKeyPress("p") \/ handleKeyPress("P")))
          => (phase' = "GameOver" /\ snake' = snake /\ food' = food
              /\ score' = score /\ directionRef' = directionRef)]_vars

\* a finished game with a score in which the key p can be pressed and moves
\* nothing
C11_Witness ==
    /\ gameOver
    /\ score = 10
    /\ ENABLED (handleKeyPress("p") /\ UNCHANGED vars)

\* C12: a restart key (space, Enter) pressed while Running or Paused restores
\* the initial snake, the initial direction, score 0 and phase Running.
C12_ResetFromAnyPhase ==
    [][(~gameOver /\ (handleKeyPress(" ") \/ handleKeyPress("Enter")))
          => (/\ snake' = INITIAL_SNAKE
              /\ directionRef' = INITIAL_DIRECTION
              /\ score' = 0
              /\ phase' = "Running")]_vars

\* C12 as amended: a restart key pressed while Running or Paused restores
\* nothing: snake, food, score and direction stay, the game is not over, and
\* the only change is the pause flag, flipped by space.
C12_NoResetOutsideGameOver ==
    [][(~gameOver /\ (handleKeyPress(" ") \/ handleKeyPress("Enter")))
          => (/\ snake' = snake /\ food' = food /\ score' = score
              /\ directionRef' = directionRef
              /\ ~gameOver'
              /\ isPaused' = ~isPaused)]_vars

\* paused by space in mid-game, the grown snake and the score kept
C12_Witness ==
    /\ isPaused
    /\ score = 20
    /\ snake # INITIAL_SNAKE

\* number of cells between two positions, counted along the axes
Dist(p, q) ==
    (IF p.x >= q.x THEN p.x - q.x ELSE q.x - p.x)
    + (IF p.y >= q.y THEN p.y - q.y ELSE q.y - p.y)

\* C13: a non-colliding tick that keeps the direction of the tick before it
\* shifts every segment by exactly one cell in that direction, and the length
\* is unchanged unless the tick eats.
C13_EverySegmentShiftsInDirection ==
    [][(moveSnake /\ NonColliding /\ directionRef = committedDir)
          => (/\ \A i \in 1..Len(snake) :
                    snake'[i] = [x |-> snake[i].x + directionRef.x,
                                 y |-> snake[i].y + directionRef.y]
              /\ (NewHead # food => Len(snake') = Len(snake)))]_vars

\* C13 as amended: a non-colliding tick moves the head exactly one cell in
\* the current direction and every other segment exactly one cell, into the
\* cell the segment before it held; the length is unchanged unless the tick
\* eats, and then it grows by one.
C13_SegmentsFollowTheHead ==
    [][(moveSnake /\ NonColliding)
          => (/\ snake'[1] = NewHead
              /\ \A i \in 2..Len(snake) :
                    snake'[i] = snake[i - 1] /\ Dist(snake'[i], snake[i]) = 1
              /\ (NewHead # food => Len(snake') = Len(snake))
              /\ (NewHead = food => Len(snake') = Len(snake) + 1))]_vars

\* a running snake of three segments with a bend, moving straight on
C13_Witness ==
    /\ phase = "Running"
    /\ Len(snake) = 3
    /\ snake[1].x # snake[3].x
    /\ snake[1].y # snake[3].y
    /\ directionRef = committedDir

\* C14: a non-colliding tick that does not eat yields the old head plus the
\* pending direction, followed by the old snake without its last segment, and
\* leaves food and score as they were.
C14_PlainMove ==
    [][(moveSnake /\ NonColliding /\ NewHead # food)
          => (/\ snake' = <<NewHead>> \o SubSeq(snake, 1, Len(snake) - 1)
              /\ food' = food
              /\ score' = score)]_vars

\* a snake of two segments that has moved along the row above the food row
C14_Witness ==
    /\ Len(snake) = 2
    /\ snake[1].y = INITIAL_FOOD.y - 1
    /\ snake[2].y = INITIAL_FOOD.y - 1
    /\ snake[1].x < snake[2].x

\* C15: a direction key pressed while Paused or GameOver leaves snake, food,
\* score and phase as they were, and the step that leaves GameOver sets the
\* direction so that the next tick moves the head from (10,10) to (11,10),
\* whatever was requested before.
C15_DirectionOutsideRunning ==
    [][ /\ (phase # "Running" /\ \E k \in DOMAIN keyMap : handleKeyPress(k))
            => (snake' = snake /\ food' = food /\ score' = score
                /\ phase' = phase)
        /\ (gameOver /\ ~gameOver')
            => (directionRef' = [x |-> 1, y |-> 0]
                /\ NewHead' = [x |-> 11, y |-> 10]) ]_vars

\* paused before the first food, with a turn requested that no tick applied
C15_Witness ==
    /\ isPaused
    /\ Len(snake) = 1
    /\ snake # INITIAL_SNAKE
    /\ directionRef # committedDir

\* C17: the score is always 10 * (number of segments - 1), hence a
\* non-negative multiple of 10, and no step lowers it except the reset.
C17_ScoreTracksLength ==
    /\ [](score = 10 * (Len(snake) - 1) /\ score >= 0 /\ score % 10 = 0)
    /\ [][score' >= score \/ (gameOver /\ ~gameOver' /\ score' = 0)]_vars

C17_Witness == score = 30 /\ Len(snake) = 4 /\ ~gameOver

\* ticks the head needs to leave the grid in the direction it is set to
TicksToWall ==
    IF directionRef.x = 1 THEN GRID_SIZE - snake[1].x
    ELSE IF directionRef.x = -1 THEN snake[1].x + 1
    ELSE IF directionRef.y = 1 THEN GRID_SIZE - snake[1].y
    ELSE snake[1].y + 1

\* C18: from a Running state, with ticks delivered and no input, the game
\* reaches GameOver within GRID_SIZE ticks: the head faces a wall at most
\* GRID_SIZE ticks away, and every tick either ends the game or brings the
\* head one cell closer to that wall.
C18_QuietGameEnds ==
    /\ (phase = "Running") ~> (phase = "GameOver")
    /\ [](TicksToWall \in 1..GRID_SIZE)
    /\ [][gameOver' \/ TicksToWall' = TicksToWall - 1]_vars

\* a run that ate twice on its way and ended at the wall
C18_Witness ==
    /\ gameOver
    /\ Len(snake) = 4
    /\ ~InGrid(NewHead)
    /\ directionRef = committedDir

\* C16: whenever a tick is about to eat, and so to call generateFood, some
\* cell of the grid passes the rejection test, also when the snake fills
\* every cell but the one the food is on.
C16_SomeCellAcceptable ==
    (gameLoopActive /\ NonColliding /\ NewHead = food)
        => \E c \in GridCells : ~rejects(c, snake)

\* the board after the last possible meal: the snake on every cell, the new
\* food on the only cell the test accepted, under the head
C16_Witness ==
    /\ Len(snake) = GRID_SIZE * GRID_SIZE
    /\ food = snake[1]
    /\ score = 10 * (GRID_SIZE * GRID_SIZE - 1)

====
